---------------------------- MODULE Spec2Model ----------------------------
(***************************************************************************)
(* The content script "LinkedInJobInsights" that the two installers write  *)
(* to disk as content.js:                                                  *)
(*   rich    : src/installer_script.py      lines 65-317                   *)
(*   compact : src/exe_installer_script.py  lines 184-320                  *)
(* One browsing context, one instance (the module-level jobInsights), the  *)
(* event loop of the page: every action below is one run-to-completion     *)
(* task (a call from the page, a DOM event, a timer, a settled promise).   *)
(*                                                                         *)
(* Strings are sequences of tokens; a digit is a token of its own, so the  *)
(* regular expressions of extractJobId are matched position by position.   *)
(*                                                                         *)
(* The GUI installer "LinkedInJobInsightsInstaller" that writes the        *)
(* compact script (src/exe_installer_script.py lines 21-557): the Tk main  *)
(* loop runs one event handler at a time, and install_extension runs in a  *)
(* worker thread that yields at every update_progress and message box.     *)
(***************************************************************************)
EXTENDS Integers, Sequences, FiniteSets, TLC

\* ------------------------------------------------------------------ bounds
MaxWrappers == 2   \* init() calls that install (wrappers are never removed)
MaxCalls    == 1   \* calls of window.fetch by the page, presenter runs
MaxNetCalls == 2   \* calls of window.fetch by the page, interceptor runs
MaxTips     == 2   \* overlay elements ever created
MaxQueue    == 2   \* pending delayed lookups of the click listeners
MaxNavQueue == 1   \* pending delayed lookups of the location watchers
MaxHarvests == 2   \* calls of window.fetch by the page, harvest runs
MaxUrlLen   == 4   \* tokens of an argument of extractJobId, extractor runs
MaxThreads  == 2   \* worker threads the installer run can hold
MaxClicks   == 3   \* clicks on the installer's "Install Extension" button

\* ------------------------------------------------------- JavaScript values
Digits == {"0", "1", "2", "7"}

Str(s)  == [t |-> "str", v |-> s]
Num(d)  == [t |-> "num", v |-> d]       \* a non-negative integer, by its digits
Undef   == [t |-> "undef", v |-> <<>>]
NullV   == [t |-> "null", v |-> <<>>]
Arr(xs) == [t |-> "arr", v |-> xs]

ObjFields == {"elements", "data", "jobPostingId", "entityUrn", "listedAt",
              "expireAt", "originalListedAt", "views", "applies", "title",
              "companyDetails", "companyResolutionResult", "name"}

\* an object literal: the given fields, every other field undefined
Obj(o) == [t |-> "obj",
           v |-> [f \in ObjFields |-> IF f \in DOMAIN o THEN o[f] ELSE Undef]]

\* a Request object: typeof is not 'string'; it carries its url
Req(s)  == [t |-> "req", v |-> s]

\* ToBoolean
Truthy(x) ==
  CASE x.t = "str"   -> x.v # <<>>
    [] x.t = "num"   -> x.v # <<"0">>
    [] x.t = "undef" -> FALSE
    [] x.t = "null"  -> FALSE
    [] OTHER         -> TRUE

\* x.f cannot be evaluated: property access on null or undefined throws
Throws(x) == x.t \in {"null", "undef"}

\* x.f for x an object; a property of a string, number or array is undefined
Get(x, f) == IF x.t = "obj" THEN x.v[f] ELSE Undef

\* a || b
Or(a, b) == IF Truthy(a) THEN a ELSE b

NA      == Str(<<"N/A">>)
Unknown == Str(<<"Unknown">>)

\* ------------------------------------------------------------ pure helpers
\* String.prototype.includes(sub)
Includes(s, sub) ==
  \E i \in 1..(Len(s) - Len(sub) + 1) :
    \A k \in 1..Len(sub) : s[i + k - 1] = sub[k]

\* the endpoint signature both wrappers test for
Signature == <<"voyager/api/jobs/jobPostings">>

\* length of the run of digits of s that starts at position i
RECURSIVE DigitRun(_, _)
DigitRun(s, i) ==
  IF i <= Len(s) /\ s[i] \in Digits THEN 1 + DigitRun(s, i + 1) ELSE 0

\* does the token sequence lits (a sequence of token classes) sit at s[i..]
LitsAt(s, lits, i) ==
  /\ i + Len(lits) - 1 <= Len(s)
  /\ \A k \in 1..Len(lits) : s[i + k - 1] \in lits[k]

\* A pattern is pre (\d+) post.  The numbers of digits the group can take at
\* position i: the literals before it fit, and the literals after it fit.
Takes(s, p, i) ==
  IF ~ LitsAt(s, p.pre, i) THEN {}
  ELSE {n \in 1..DigitRun(s, i + Len(p.pre)) : LitsAt(s, p.post, i + Len(p.pre) + n)}

Max(S) == CHOOSE x \in S : \A y \in S : y <= x
Min(S) == CHOOSE x \in S : \A y \in S : x <= y

\* the group of a match at position i: as many digits as the pattern allows
CaptureAt(s, p, i) ==
  SubSeq(s, i + Len(p.pre), i + Len(p.pre) + Max(Takes(s, p, i)) - 1)

\* the group of the leftmost of the matches at starts; <<>> when there is none
CaptureFrom(s, p, starts) ==
  IF starts = {} THEN <<>> ELSE CaptureAt(s, p, Min(starts))

\* url.match(pattern): leftmost position, greedy group; <<>> when no match
RegexCapture(s, p) ==
  CaptureFrom(s, p, {i \in 1..Len(s) : Takes(s, p, i) # {}})

PatView    == [pre |-> <<{"/jobs/view/"}>>, post |-> <<>>]
PatCurrent == [pre |-> <<{"currentJobId="}>>, post |-> <<>>]
PatPosting == [pre |-> <<{"jobPostingId"}, {"=", ":"}>>, post |-> <<>>]
PatQuoted  == [pre |-> <<{"q"}, {"jobPostingId"}, {"q"}, {":"}, {"q"}>>,
               post |-> <<{"q"}>>]

\* the patterns array of extractJobId, per variant
patterns(vr) ==
  IF vr = "rich" THEN <<PatView, PatCurrent, PatPosting, PatQuoted>>
                 ELSE <<PatView, PatCurrent, PatPosting>>

\* "if (match) return match[1]", else go on with the loop
matchOr(capture, rest) ==
  IF capture # <<>> THEN Str(capture) ELSE rest

\* the positions of url where pattern p matches
matchStarts(url, p) == {i \in 1..Len(url) : Takes(url, p, i) # {}}

\* the capture of the match that starts leftmost in url, whichever pattern
\* of ps makes it (the first of them in array order on a tie)
leftmostCapture(ps, url, hits) ==
  IF hits = {} THEN NullV
  ELSE Str(RegexCapture(url,
             ps[Min({k \in hits : \A j \in hits :
                       Min(matchStarts(url, ps[k])) <= Min(matchStarts(url, ps[j]))})]))

\* the loop replaced by a search for the match nearest the start of url
forPatternsLeftmost(ps, url, k) ==
  leftmostCapture(ps, url, {j \in k..Len(ps) : matchStarts(url, ps[j]) # {}})

\* the for loop of extractJobId from pattern k on; null when it runs out
RECURSIVE forPatterns(_, _, _)
forPatterns(ps, url, k) ==
  IF k > Len(ps) THEN NullV
  ELSE matchOr(RegexCapture(url, ps[k]), forPatterns(ps, url, k + 1))

\* extractJobId(url) for a string url: the capture of the first pattern, in
\* array order, that matches; null when none does
extractJobId(vr, url) ==
  forPatterns(patterns(vr), url, 1)

\* parseInt(x): the leading digits; <<>> stands for NaN
ParseInt(x) ==
  IF x.t \in {"str", "num"} THEN SubSeq(x.v, 1, DigitRun(x.v, 1)) ELSE <<>>

\* new Date(n).toLocaleDateString() + ' ' + toLocaleTimeString(...)
FormatDate(n) ==
  IF n = <<>> THEN <<"Invalid Date", " ", "Invalid Date">>
              ELSE <<"date:">> \o n \o <<" ", "time:">> \o n

convertTimestamp(timestamp) ==
  IF ~ Truthy(timestamp) THEN NA ELSE Str(FormatDate(ParseInt(timestamp)))

\* x?.f
OptGet(x, f) == IF Throws(x) THEN Undef ELSE Get(x, f)

\* ------------------------------------------------------------ Record Cache
\* jobData is a Map: a function whose domain is the set of keys in use
EmptyMap == [k \in {} |-> NA]

MapHas(m, k) == k \in DOMAIN m

\* a set that fills the gaps of the new record from the record it replaces
MapSetMerge(m, k, r) ==
  [x \in (DOMAIN m) \cup {k} |->
     IF x # k THEN m[x]
     ELSE IF k \notin DOMAIN m THEN r
     ELSE [f \in DOMAIN r |-> IF r[f] = NA THEN m[k][f] ELSE r[f]]]

\* Map.prototype.set
MapSet(m, k, r) == [x \in (DOMAIN m) \cup {k} |-> IF x = k THEN r ELSE m[x]]

\* ---------------------------------------------------------- processJobData
\* The value of "jobs" after the shape tests; threw: the tests raised
selectJobs(vr, data) ==
  IF Throws(data) THEN [threw |-> TRUE, jobs |-> Undef]
  ELSE IF vr = "rich" THEN
    [threw |-> FALSE,
     jobs  |-> IF Truthy(Get(data, "elements")) THEN Get(data, "elements")
               ELSE IF Truthy(Get(data, "data"))
                       /\ Truthy(Get(Get(data, "data"), "elements"))
                    THEN Get(Get(data, "data"), "elements")
               ELSE IF data.t = "arr" THEN data
               ELSE IF Truthy(Get(data, "jobPostingId")) THEN Arr(<<data>>)
               ELSE Arr(<<>>)]
  ELSE
    [threw |-> FALSE,
     jobs  |-> IF Truthy(Get(data, "elements")) THEN Get(data, "elements")
               ELSE IF Truthy(Get(data, "data"))
                       /\ Truthy(Get(Get(data, "data"), "elements"))
                    THEN Get(Get(data, "data"), "elements")
               ELSE IF data.t = "arr" THEN data
               ELSE Arr(<<data>>)]

\* x ?? 'N/A': the placeholder for a missing value only
OrMissing(x) == IF x.t \in {"undef", "null"} THEN NA ELSE x

\* the record literal with ?? in place of || for the two counts
makeRecordKeepsZero(vr, jobId, job) ==
  IF vr = "rich" THEN
    [id               |-> jobId,
     listedAt         |-> convertTimestamp(Get(job, "listedAt")),
     expireAt         |-> convertTimestamp(Get(job, "expireAt")),
     originalListedAt |-> convertTimestamp(Get(job, "originalListedAt")),
     views            |-> OrMissing(Get(job, "views")),
     applies          |-> OrMissing(Get(job, "applies")),
     title            |-> Or(Get(job, "title"), Unknown),
     company          |-> Or(OptGet(OptGet(Get(job, "companyDetails"),
                                           "companyResolutionResult"), "name"),
                             Unknown)]
  ELSE
    [id       |-> jobId,
     listedAt |-> convertTimestamp(Get(job, "listedAt")),
     expireAt |-> convertTimestamp(Get(job, "expireAt")),
     views    |-> OrMissing(Get(job, "views")),
     applies  |-> OrMissing(Get(job, "applies"))]

\* the record literal passed to jobData.set
makeRecord(vr, jobId, job) ==
  IF vr = "rich" THEN
    [id               |-> jobId,
     listedAt         |-> convertTimestamp(Get(job, "listedAt")),
     expireAt         |-> convertTimestamp(Get(job, "expireAt")),
     originalListedAt |-> convertTimestamp(Get(job, "originalListedAt")),
     views            |-> Or(Get(job, "views"), NA),
     applies          |-> Or(Get(job, "applies"), NA),
     title            |-> Or(Get(job, "title"), Unknown),
     company          |-> Or(OptGet(OptGet(Get(job, "companyDetails"),
                                           "companyResolutionResult"), "name"),
                             Unknown)]
  ELSE
    [id       |-> jobId,
     listedAt |-> convertTimestamp(Get(job, "listedAt")),
     expireAt |-> convertTimestamp(Get(job, "expireAt")),
     views    |-> Or(Get(job, "views"), NA),
     applies  |-> Or(Get(job, "applies"), NA)]

\* the set without its test: a record is stored under whatever was derived
setIfIdNoTest(vr, jobId, job, m) ==
  MapSet(m, jobId, makeRecord(vr, jobId, job))

\* "if (jobId) { this.jobData.set(jobId, {...}) }"
setIfId(vr, jobId, job, m) ==
  IF Truthy(jobId) THEN MapSet(m, jobId, makeRecord(vr, jobId, job)) ELSE m

\* this.extractJobId(urn) and the set that follows; url.match is no function
\* unless urn is a string
extractAndSet(vr, urn, job, m) ==
  IF urn.t # "str" THEN [threw |-> TRUE, jobData |-> m]
  ELSE [threw |-> FALSE, jobData |-> setIfId(vr, extractJobId(vr, urn.v), job, m)]

\* the callback of jobs.forEach applied to one entry whose fields can be read
jobFields(vr, pid, urn, job, m) ==
  IF vr = "rich" THEN
    IF Truthy(Or(pid, urn)) THEN
      IF Truthy(pid) THEN [threw |-> FALSE, jobData |-> setIfId(vr, pid, job, m)]
      ELSE extractAndSet(vr, urn, job, m)
    ELSE [threw |-> FALSE, jobData |-> m]
  ELSE
    IF Truthy(pid) THEN [threw |-> FALSE, jobData |-> setIfId(vr, pid, job, m)]
    ELSE extractAndSet(vr, Or(urn, Str(<<>>)), job, m)

\* the callback of jobs.forEach applied to one entry
jobStep(vr, job, m) ==
  IF Throws(job) THEN [threw |-> TRUE, jobData |-> m]
  ELSE jobFields(vr, Get(job, "jobPostingId"), Get(job, "entityUrn"), job, m)

\* jobs.forEach from entry i on; an exception ends the iteration, the writes
\* made before it stay
RECURSIVE forEachJob(_, _, _, _)
RECURSIVE forEachRest(_, _, _, _)
forEachJob(vr, jobs, i, m) ==
  IF i > Len(jobs) THEN [threw |-> FALSE, jobData |-> m]
  ELSE forEachRest(vr, jobs, i, jobStep(vr, jobs[i], m))

\* r is what the callback did for entry i
forEachRest(vr, jobs, i, r) ==
  IF r.threw THEN r ELSE forEachJob(vr, jobs, i + 1, r.jobData)

\* jobs.forEach(...) on the selected value; forEach is no function unless it
\* is an array
iterateJobs(vr, sel, m) ==
  IF sel.threw \/ sel.jobs.t # "arr" THEN [threw |-> TRUE, jobData |-> m]
  ELSE forEachJob(vr, sel.jobs.v, 1, m)

\* the try block of processJobData
processJobDataTry(vr, data, m) ==
  iterateJobs(vr, selectJobs(vr, data), m)

\* catch (error) { console.error(...) }: r is how the try block ended
catchBlock(r) ==
  [jobData |-> r.jobData, logged |-> r.threw, escaped |-> FALSE]

\* processJobData: try { ... } catch (error) { ... }
\* escaped: an exception left the method; logged: the catch block ran
processJobData(vr, data, m) ==
  catchBlock(processJobDataTry(vr, data, m))

\* ------------------------------------------------------ the fetch wrapper
\* One layer of "window.fetch = function(...args)" over the primitive inner:
\* inner is what calling the wrapped primitive with args amounts to, as
\* origArgs (the argument lists the page's own fetch received) and thens (the
\* response callbacks chained on its promise).  Same text in both variants.
wrapperLayer(inner, args) ==
  IF args.t = "str" /\ Includes(args.v, Signature)
  THEN [origArgs |-> inner.origArgs, thens |-> inner.thens + 1]
  ELSE inner

\* window.fetch(args) when n wrappers are layered over the page's own fetch
RECURSIVE windowFetch(_, _)
windowFetch(n, args) ==
  IF n = 0 THEN [origArgs |-> <<args>>, thens |-> 0]
  ELSE wrapperLayer(windowFetch(n - 1, args), args)

\* the callback returning the promise of its harvest: while the clone is
\* being decoded the caller's promise is still pending
thenCallbackAwaitsHarvest(response) ==
  [ret |-> IF response.ok THEN [response EXCEPT !.kind = "none"] ELSE response,
   decode |-> response.ok]

\* the callback hands the caller the clone it made instead of the response
thenCallbackReturnsClone(response) ==
  [ret |-> IF response.ok THEN [response EXCEPT !.obj = "clone"] ELSE response,
   decode |-> response.ok]

\* .then(response => { if (response.ok) { clone; json()... } return response })
\* ret: the value the callback returns; decode: a clone is being decoded
thenCallback(response) ==
  [ret |-> response, decode |-> response.ok]

\* the chain of n response callbacks: what the caller's promise resolves to
RECURSIVE thenChain(_, _)
thenChain(response, n) ==
  IF n = 0 THEN [ret |-> response, decodes |-> 0]
  ELSE LET cb   == thenCallback(response)
           rest == thenChain(cb.ret, n - 1)
       IN  [ret |-> rest.ret, decodes |-> rest.decodes + (IF cb.decode THEN 1 ELSE 0)]

\* .then(data => self.processJobData(data)): r is what processJobData returned
\* ran: processJobData was called; failed: its catch block ran
thenProcess(r) ==
  [jobData |-> r.jobData, ran |-> TRUE, failed |-> r.logged \/ r.escaped,
   escaped |-> r.escaped]

\* .catch(err => console.log(...)): whatever rejected before is handled here
catchLog(h) ==
  [h EXCEPT !.escaped = FALSE]

\* the branch without its .catch(...): a rejected decode is handled by nobody
harvestBranchNoCatch(vr, body, m) ==
  IF ~ body.json
  THEN [jobData |-> m, ran |-> FALSE, failed |-> TRUE, escaped |-> TRUE]
  ELSE thenProcess(processJobData(vr, body.data, m))

\* clonedResponse.json().then(data => self.processJobData(data)).catch(log)
\* failed: the decode rejected or processJobData hit its catch block;
\* escaped: a rejection nobody handles
harvestBranch(vr, body, m) ==
  IF ~ body.json
  THEN catchLog([jobData |-> m, ran |-> FALSE, failed |-> TRUE, escaped |-> TRUE])
  ELSE catchLog(thenProcess(processJobData(vr, body.data, m)))

\* ------------------------------------------------------------- the overlay
NoTip == 0

\* the reference is dropped but the element stays in the document
removeExistingTooltipKeepsElement(vr, cur, att) ==
  [currentTooltip |-> NoTip, attached |-> att]

\* removeExistingTooltip(): the new currentTooltip and the attached elements
removeExistingTooltip(vr, cur, att) ==
  IF vr = "rich"
  THEN [currentTooltip |-> NoTip, attached |-> {}]
  ELSE [currentTooltip |-> NoTip,
        attached |-> IF cur # NoTip THEN att \ {cur} ELSE att]

\* the four value spans in the order of their field names
panelRowsByName(jobInfo) ==
  <<jobInfo.applies, jobInfo.expireAt, jobInfo.listedAt, jobInfo.views>>

\* the four value spans of the panel, in document order
panelRows(jobInfo) ==
  <<jobInfo.listedAt, jobInfo.expireAt, jobInfo.views, jobInfo.applies>>

\* ------------------------------------------------------------ the inputs
Host == "https://www.linkedin.com"

\* targets the page passes to fetch
TargetApi   == Str(<<Host, "/", "voyager/api/jobs/jobPostings", "?ids=1">>)
TargetOther == Str(<<Host, "/", "voyager/api/feed">>)
TargetReq   == Req(<<Host, "/", "voyager/api/jobs/jobPostings", "?ids=1">>)
Targets     == {TargetApi, TargetOther, TargetReq}

\* decoded payloads
EntryA == Obj([listedAt |-> Num(<<"7">>), views |-> Num(<<"2">>),
               jobPostingId |-> Str(<<"1">>)])
EntryB == Obj([expireAt |-> Num(<<"7">>), applies |-> Num(<<"1">>),
               entityUrn |-> Str(<<"urn", "jobPostingId", ":", "2">>)])
PayloadAB    == Obj([elements |-> Arr(<<EntryA, EntryB>>)])
PayloadBad   == Obj([elements |-> Arr(<<EntryB, NullV>>)])
PayloadOther == Obj([title |-> Str(<<"paging">>)])

\* further payloads for the harvest: a later posting of id 1 with other fields,
\* the other list shapes, a single entry, and shapes the tests do not know
EntryA2 == Obj([applies |-> Num(<<"2">>), jobPostingId |-> Str(<<"1">>)])
EntryNoId        == Obj([views |-> Num(<<"7">>), title |-> Str(<<"paging">>)])
PayloadA2        == Obj([elements |-> Arr(<<EntryA2>>)])
PayloadNullFirst == Obj([elements |-> Arr(<<NullV, EntryA>>)])
PayloadSkip      == Obj([elements |-> Arr(<<EntryNoId, EntryB>>)])
PayloadNested    == Obj([data |-> Obj([elements |-> Arr(<<EntryA2, EntryB>>)])])
PayloadList      == Arr(<<EntryB>>)
PayloadSingle    == EntryA
PayloadNonList   == Obj([elements |-> Str(<<"none">>)])
\* a single entry that has its urn only, a payload with both list fields,
\* and a posting whose explicit id is a JSON number
EntryNum         == Obj([views |-> Num(<<"7">>), jobPostingId |-> Num(<<"1">>)])
PayloadSingleUrn == EntryB
PayloadBoth      == Obj([data |-> Obj([elements |-> Arr(<<EntryB>>)]),
                         elements |-> Arr(<<EntryA>>)])
PayloadNum       == Obj([elements |-> Arr(<<EntryNum>>)])
\* a posting that nobody has viewed yet: its view count is the number 0
EntryZero        == Obj([views |-> Num(<<"0">>), applies |-> Num(<<"2">>),
                         jobPostingId |-> Str(<<"2">>)])
PayloadZero      == Obj([elements |-> Arr(<<EntryZero>>)])
HarvestPayloads  == {PayloadAB, PayloadA2, PayloadNullFirst, PayloadSkip,
                     PayloadNested, PayloadList, PayloadSingle, PayloadOther,
                     PayloadNonList, NullV, PayloadSingleUrn, PayloadBoth,
                     PayloadNum, PayloadZero}

\* response bodies: json is FALSE when the body is not JSON text
NoBody == [data |-> Undef, json |-> FALSE]
Bodies == {NoBody} \cup
          {[data |-> d, json |-> TRUE] : d \in {PayloadAB, PayloadBad, NullV}}

\* how the page's own fetch settles
Outcomes ==
  {[ok |-> TRUE, obj |-> "original", body |-> b, kind |-> "resolve"] : b \in Bodies}
  \cup {[ok |-> FALSE, obj |-> "original",
         body |-> [data |-> PayloadAB, json |-> TRUE], kind |-> "resolve"],
        [ok |-> FALSE, obj |-> "error", body |-> NoBody, kind |-> "reject"]}
Pending == [ok |-> FALSE, obj |-> "none", body |-> NoBody, kind |-> "none"]

\* values of location.href
LocSearch  == <<Host, "/jobs/search/">>
LocView1   == <<Host, "/jobs/view/", "1">>
LocCurrent == <<Host, "/jobs/search/", "?", "currentJobId=", "2">>
Locations  == {LocSearch, LocView1}
NavLocations == {LocSearch, LocView1, LocCurrent}

\* arguments of extractJobId: every string of up to MaxUrlLen of these tokens
\* ("x" is any text no pattern mentions), and some longer ones
UrlTokens == {"/jobs/view/", "currentJobId=", "jobPostingId", "=", ":", "q",
              "1", "2", "x"}
UrnQuoted == <<"x", "q", "jobPostingId", "q", ":", "q", "1", "2", "q", "x">>
UrlBoth   == <<Host, "/jobs/search/", "?", "currentJobId=", "2", "x", "/jobs/view/", "1">>
ExtractInputs ==
  UNION {[1..n -> UrlTokens] : n \in 0..MaxUrlLen}
    \cup {LocSearch, LocView1, LocCurrent, UrnQuoted, UrlBoth}

\* click targets, by the nearest ancestor a selector of closest() matches:
\* sel is the selector it matches, "none" when closest() returns null
CardAttr      == [sel |-> "[data-job-id]", dataJobId |-> Str(<<"1">>),
                  occludable |-> NullV, href |-> Undef, linkHref |-> Undef]
CardAnchor    == [sel |-> "a[href*=/jobs/view/]", dataJobId |-> NullV,
                  occludable |-> NullV, href |-> Str(<<Host, "/jobs/view/", "2">>),
                  linkHref |-> Undef]
CardContainer == [sel |-> ".job-card-container", dataJobId |-> NullV,
                  occludable |-> NullV, href |-> Undef,
                  linkHref |-> Str(<<Host, "/jobs/view/", "2">>)]
CardStale     == [sel |-> "[data-job-id]", dataJobId |-> Str(<<"7">>),
                  occludable |-> NullV, href |-> Undef, linkHref |-> Undef]
NoCard        == [sel |-> "none", dataJobId |-> NullV, occludable |-> NullV,
                  href |-> Undef, linkHref |-> Undef]
ClickTargets  == {CardAttr, CardAnchor, CardStale, NoCard}

\* cards with more than one source of an id, for the order of the sources
CardAttrHref  == [sel |-> "[data-job-id]", dataJobId |-> Str(<<"2">>),
                  occludable |-> NullV, href |-> Str(<<Host, "/jobs/view/", "1">>),
                  linkHref |-> Undef]
CardOccluded  == [sel |-> "[data-job-id]", dataJobId |-> Str(<<>>),
                  occludable |-> Str(<<"2">>), href |-> Undef,
                  linkHref |-> Str(<<Host, "/jobs/view/", "1">>)]
CardItem      == [sel |-> ".jobs-search-results__list-item", dataJobId |-> NullV,
                  occludable |-> NullV, href |-> Undef,
                  linkHref |-> Str(<<Host, "/jobs/view/", "2">>)]
CardBare      == [sel |-> ".jobs-search-results__list-item", dataJobId |-> NullV,
                  occludable |-> NullV, href |-> Undef, linkHref |-> Undef]
ClickCards    == {CardAttr, CardAnchor, CardContainer, CardAttrHref, CardOccluded,
                  CardItem, CardBare, NoCard}

\* the selector list handed to closest()
cardSelectors(vr) ==
  IF vr = "rich"
  THEN {"[data-job-id]", ".jobs-search-results__list-item", ".job-card-container",
        "a[href*=/jobs/view/]"}
  ELSE {"[data-job-id]", ".jobs-search-results__list-item", "a[href*=/jobs/view/]"}

\* "if (!jobId) { link = jobCard.querySelector(...); if (link) ... }"
linkFallback(vr, jobId, jobCard) ==
  IF ~ Truthy(jobId) /\ jobCard.linkHref.t = "str"
  THEN extractJobId(vr, jobCard.linkHref.v)
  ELSE jobId

\* the sources in another order: the page location before the card's href
resolveJobIdLocationFirst(vr, jobCard, loc) ==
  IF vr = "rich" THEN
    linkFallback(vr,
                 Or(Or(Or(jobCard.dataJobId, jobCard.occludable),
                       extractJobId(vr, loc)),
                    extractJobId(vr, Or(jobCard.href, Str(<<>>)).v)),
                 jobCard)
  ELSE Or(jobCard.dataJobId, extractJobId(vr, Or(Str(loc), jobCard.href).v))

\* the id showJobInsights(jobCard) resolves; a falsy value when none
resolveJobId(vr, jobCard, loc) ==
  IF vr = "rich" THEN
    linkFallback(vr,
                 Or(Or(Or(jobCard.dataJobId, jobCard.occludable),
                       extractJobId(vr, Or(jobCard.href, Str(<<>>)).v)),
                    extractJobId(vr, loc)),
                 jobCard)
  ELSE Or(jobCard.dataJobId, extractJobId(vr, Or(jobCard.href, Str(loc)).v))

\* ------------------------------------------------------------------ state
VARIABLES
  variant,         \* which content.js runs: "rich" or "compact"
  isInitialized,   \* this.isInitialized
  observer,        \* this.observer: "null", "connected", "disconnected"
  wrappers,        \* wrappers layered over the page's own window.fetch
  clickListeners,  \* click listeners registered on document
  navObservers,    \* lastUrl of each location-watching MutationObserver
  jobData,         \* this.jobData
  currentTooltip,  \* this.currentTooltip (NoTip for null)
  attached,        \* overlay elements that are children of document.body
  tooltips,        \* every element created: its rows and the id it was built for
  timers,          \* elements whose 10 s auto-dismiss timer is pending
  clickQueue,      \* pending 500 ms timers of the click listener, oldest first
  navQueue,        \* pending 1000 ms timers of the location watcher, oldest first
  calls,           \* the calls of window.fetch made by the page
  location,        \* location.href
  harvestEscaped,  \* an exception or rejection left the harvest branch unhandled
  uncaught,        \* the task that ran last ended with an uncaught exception
  extractCall,     \* the latest direct call of extractJobId: its argument and result
  lastOp,          \* what the last step ran: a lifecycle method, a timer expiry,
                   \* a show, a click on the close button; "task" for any other step
  install_btn,         \* installer: state of self.install_btn
  open_extensions_btn, \* installer: state of self.open_extensions_btn
  browser_var,         \* installer: self.browser_var
  progress_var,        \* installer: self.progress_var
  opened,              \* installer: extension pages webbrowser.open was called for
  threads,             \* installer: the threads started, each with its position
                       \* in install_extension
  installClicks        \* installer: clicks made on the install button

installerVars == <<install_btn, open_extensions_btn, browser_var, progress_var,
                   opened, threads, installClicks>>

scriptVars == <<variant, isInitialized, observer, wrappers, clickListeners, navObservers,
                jobData, currentTooltip, attached, tooltips, timers, clickQueue,
                navQueue, calls, location, harvestEscaped,
                uncaught, extractCall, lastOp>>

vars == <<scriptVars, installerVars>>

lifecycleVars == <<isInitialized, observer, wrappers, clickListeners, navObservers>>
overlayVars   == <<currentTooltip, attached, tooltips, timers>>
queueVars     == <<clickQueue, navQueue>>

\* no call of extractJobId is under way
NoCall == [url |-> <<>>, ret |-> Undef, done |-> FALSE]

\* the constructor, and the page as the script finds it
Constructed ==
  /\ variant \in {"rich", "compact"}
  /\ isInitialized = FALSE
  /\ observer = "null"
  /\ wrappers = 0
  /\ clickListeners = 0
  /\ navObservers = <<>>
  /\ jobData = EmptyMap
  /\ currentTooltip = NoTip
  /\ attached = {}
  /\ tooltips = <<>>
  /\ timers = {}
  /\ clickQueue = <<>>
  /\ navQueue = <<>>
  /\ calls = <<>>
  /\ location = LocSearch
  /\ harvestEscaped = FALSE
  /\ uncaught = FALSE
  /\ lastOp = "new"

\* create_gui: the window as the installer shows it first
GuiCreated ==
  /\ install_btn = "normal"
  /\ open_extensions_btn = "disabled"
  /\ browser_var = "chrome"
  /\ progress_var = 0
  /\ opened = {}
  /\ threads = <<>>
  /\ installClicks = 0

Init == Constructed /\ extractCall = NoCall /\ GuiCreated

\* ---------------------------------------------------------------- lifecycle
\* init() without its first line: it installs whatever the flag says
InitCallNoGuard ==
  /\ wrappers < MaxWrappers
  /\ wrappers' = wrappers + 1
  /\ clickListeners' = clickListeners + 1
  /\ navObservers' = IF variant = "rich" THEN Append(navObservers, location)
                                         ELSE navObservers
  /\ observer' = IF variant = "rich" THEN "connected" ELSE observer
  /\ isInitialized' = TRUE
  /\ lastOp' = "init"
  /\ UNCHANGED <<variant, extractCall, installerVars, jobData, overlayVars, queueVars, calls, location,
                 harvestEscaped>>
  /\ uncaught' = FALSE

\* init()
InitCall ==
  /\ isInitialized \/ wrappers < MaxWrappers
  /\ IF isInitialized
     THEN UNCHANGED lifecycleVars
     ELSE /\ wrappers' = wrappers + 1
          /\ clickListeners' = clickListeners + 1
          /\ navObservers' = IF variant = "rich" THEN Append(navObservers, location)
                                                 ELSE navObservers
          /\ observer' = IF variant = "rich" THEN "connected" ELSE observer
          /\ isInitialized' = TRUE
  /\ lastOp' = IF isInitialized THEN "init (returned at once)" ELSE "init"
 
  /\ UNCHANGED <<variant, extractCall, installerVars, jobData, overlayVars, queueVars, calls, location,
                 harvestEscaped>>
  /\ uncaught' = FALSE

\* destroy() without this.jobData.clear()
DestroyKeepsCache ==
  /\ variant = "rich"
  /\ LET r == removeExistingTooltip(variant, currentTooltip, attached)
     IN  /\ currentTooltip' = r.currentTooltip
         /\ attached' = r.attached
  /\ observer' = IF observer # "null" THEN "disconnected" ELSE observer
  /\ isInitialized' = FALSE
  /\ lastOp' = "destroy"
  /\ UNCHANGED <<variant, extractCall, installerVars, wrappers, clickListeners, navObservers, jobData, tooltips,
                 timers, queueVars, calls, location, harvestEscaped>>
  /\ uncaught' = FALSE

\* destroy() (the rich variant only has it)
Destroy ==
  /\ variant = "rich"
  /\ LET r == removeExistingTooltip(variant, currentTooltip, attached)
     IN  /\ currentTooltip' = r.currentTooltip
         /\ attached' = r.attached
  /\ observer' = IF observer # "null" THEN "disconnected" ELSE observer
  /\ jobData' = EmptyMap
  /\ isInitialized' = FALSE
  /\ lastOp' = "destroy"
  /\ UNCHANGED <<variant, extractCall, installerVars, wrappers, clickListeners, navObservers, tooltips, timers,
                 queueVars, calls, location, harvestEscaped>>
  /\ uncaught' = FALSE

\* -------------------------------------------------------------- interceptor
\* the page calls window.fetch(args)
FetchCall(args) ==
  /\ LET f == windowFetch(wrappers, args)
     IN  calls' = Append(calls, [args |-> args, origArgs |-> f.origArgs,
                                 thens |-> f.thens, outcome |-> Pending,
                                 delivered |-> Pending, decodes |-> 0,
                                 harvested |-> 0, failed |-> 0])
  /\ lastOp' = "task"
  /\ UNCHANGED <<variant, extractCall, installerVars, lifecycleVars, jobData, overlayVars, queueVars, location,
                 harvestEscaped>>
  /\ uncaught' = FALSE

\* the page's own fetch settles call c; the chained callbacks run
FetchSettles(c, out) ==
  /\ c \in 1..Len(calls)
  /\ calls[c].outcome = Pending
  /\ LET ch == thenChain(out, calls[c].thens)
     IN  calls' = [calls EXCEPT
                     ![c].outcome = out,
                     ![c].delivered = IF out.kind = "reject" THEN out ELSE ch.ret,
                     ![c].decodes = IF out.kind = "reject" THEN 0 ELSE ch.decodes]
  /\ lastOp' = "task"
  /\ UNCHANGED <<variant, extractCall, installerVars, lifecycleVars, jobData, overlayVars, queueVars, location,
                 harvestEscaped>>
  /\ uncaught' = FALSE

\* the side branch of call c ended as h
harvestDone(c, h) ==
  /\ jobData' = h.jobData
  /\ harvestEscaped' = (harvestEscaped \/ h.escaped)
  /\ calls' = [calls EXCEPT
                 ![c].decodes = @ - 1,
                 ![c].harvested = @ + (IF h.ran THEN 1 ELSE 0),
                 ![c].failed = @ + (IF h.failed THEN 1 ELSE 0)]

\* the json() promise of one clone of call c settles
DecodeSettles(c) ==
  /\ c \in 1..Len(calls)
  /\ calls[c].decodes > 0
  /\ harvestDone(c, harvestBranch(variant, calls[c].outcome.body, jobData))
  /\ lastOp' = "task"
  /\ UNCHANGED <<variant, extractCall, installerVars, lifecycleVars, overlayVars, queueVars, location>>
  /\ uncaught' = FALSE

\* ---------------------------------------------------------------- presenter
\* a show that leaves a panel already displayed in place: the first one wins
showJobInsightsForIdKeepsFirst(jobId, anchor) ==
  IF ~ MapHas(jobData, jobId) \/ currentTooltip \in attached
  THEN UNCHANGED overlayVars /\ uncaught' = FALSE
  ELSE LET jobInfo == jobData[jobId]
           tooltip == Len(tooltips) + 1
       IN  /\ tooltips' = Append(tooltips, [rows |-> panelRows(jobInfo), id |-> jobInfo.id])
           /\ attached' = attached \cup {tooltip}
           /\ currentTooltip' = tooltip
           /\ timers' = timers \cup {tooltip}
           /\ uncaught' = FALSE

\* a show that removes the displayed panel before it looks the id up
showJobInsightsForIdRemovesFirst(jobId, anchor) ==
  LET r == removeExistingTooltip(variant, currentTooltip, attached)
  IN  IF ~ MapHas(jobData, jobId)
      THEN /\ currentTooltip' = r.currentTooltip
           /\ attached' = r.attached
           /\ UNCHANGED <<tooltips, timers>>
           /\ uncaught' = FALSE
      ELSE /\ tooltips' = Append(tooltips, [rows |-> panelRows(jobData[jobId]),
                                            id |-> jobData[jobId].id])
           /\ attached' = r.attached \cup {Len(tooltips) + 1}
           /\ currentTooltip' = Len(tooltips) + 1
           /\ timers' = IF variant = "rich" /\ ~ anchor
                        THEN timers ELSE timers \cup {Len(tooltips) + 1}
           /\ uncaught' = (variant = "rich" /\ ~ anchor)

\* From the cache lookup on: showJobInsightsForId(jobId) in the rich variant,
\* the second half of showJobInsights in the compact one.  anchor: the
\* document has an element matching the layout selectors (rich variant: the
\* lookup of its rectangle throws when it has none, before the timer is armed).
showJobInsightsForId(jobId, anchor) ==
  IF ~ MapHas(jobData, jobId)
  THEN UNCHANGED overlayVars /\ uncaught' = FALSE
      
  ELSE LET jobInfo == jobData[jobId]
           r       == removeExistingTooltip(variant, currentTooltip, attached)
           tooltip == Len(tooltips) + 1
           throws  == variant = "rich" /\ ~ anchor
       IN  /\ tooltips' = Append(tooltips, [rows |-> panelRows(jobInfo), id |-> jobInfo.id])
           /\ attached' = r.attached \cup {tooltip}
           /\ currentTooltip' = tooltip
           /\ timers' = IF throws THEN timers ELSE timers \cup {tooltip}
           /\ uncaught' = throws

\* "if (jobId) { this.showJobInsightsForId(jobId) }"
showIfId(jobId, anchor) ==
  IF Truthy(jobId)
  THEN showJobInsightsForId(jobId, anchor)
  ELSE UNCHANGED overlayVars /\ uncaught' = FALSE

\* what a delayed lookup that resolved jobId did, for lastOp
lookupOp(jobId) ==
  IF ~ Truthy(jobId) THEN "task"
  ELSE IF MapHas(jobData, jobId) THEN "show" ELSE "show (no record)"

\* a delayed lookup resolved jobId and went on with it
lookupDone(jobId, anchor) ==
  /\ showIfId(jobId, anchor)
  /\ lastOp' = lookupOp(jobId)

\* a lookup that takes the record out of the cache when it displays it
ClickLookupEvicts(anchor) ==
  /\ clickQueue # <<>>
  /\ Len(tooltips) < MaxTips
  /\ lookupDone(resolveJobId(variant, Head(clickQueue), location), anchor)
  /\ clickQueue' = Tail(clickQueue)
  /\ jobData' = [k \in DOMAIN jobData \ {resolveJobId(variant, Head(clickQueue), location)}
                  |-> jobData[k]]
  /\ UNCHANGED <<variant, extractCall, installerVars, lifecycleVars, navQueue, calls, location,
                 harvestEscaped>>

\* the 500 ms timer of the oldest pending click runs showJobInsights(jobCard)
ClickLookup(anchor) ==
  /\ clickQueue # <<>>
  /\ Len(tooltips) < MaxTips
  /\ lookupDone(resolveJobId(variant, Head(clickQueue), location), anchor)
  /\ clickQueue' = Tail(clickQueue)
  /\ UNCHANGED <<variant, extractCall, installerVars, lifecycleVars, jobData, navQueue, calls, location,
                 harvestEscaped>>

\* the timer callback reading location.href when it runs, not the url it
\* was scheduled for
NavLookupCurrentLocation(anchor) ==
  /\ navQueue # <<>>
  /\ Len(tooltips) < MaxTips
  /\ lookupDone(extractJobId(variant, location), anchor)
  /\ navQueue' = Tail(navQueue)
  /\ UNCHANGED <<variant, extractCall, installerVars, lifecycleVars, jobData, clickQueue, calls, location,
                 harvestEscaped>>

\* the 1000 ms timer of the oldest detected location change runs
NavLookup(anchor) ==
  /\ navQueue # <<>>
  /\ Len(tooltips) < MaxTips
  /\ lookupDone(extractJobId(variant, Head(navQueue)), anchor)
  /\ navQueue' = Tail(navQueue)
  /\ UNCHANGED <<variant, extractCall, installerVars, lifecycleVars, jobData, clickQueue, calls, location,
                 harvestEscaped>>

\* the callback without its test: it removes whatever is displayed
timerCallbackNoTest(vr, tooltip, cur, att) ==
  removeExistingTooltip(vr, cur, att)

\* the callback of the auto-dismiss timer armed for element tooltip
timerCallback(vr, tooltip, cur, att) ==
  IF vr = "rich"
  THEN IF cur = tooltip THEN removeExistingTooltip(vr, cur, att)
                        ELSE [currentTooltip |-> cur, attached |-> att]
  ELSE removeExistingTooltip(vr, cur, att)

\* the oldest pending 10 s timer expires
TimerFires ==
  /\ timers # {}
  /\ LET tooltip == Min(timers)
         r       == timerCallback(variant, tooltip, currentTooltip, attached)
     IN  /\ timers' = timers \ {tooltip}
         /\ currentTooltip' = r.currentTooltip
         /\ attached' = r.attached
  /\ lastOp' = "timer"
  /\ UNCHANGED <<variant, extractCall, installerVars, lifecycleVars, jobData, tooltips, queueVars, calls,
                 location, harvestEscaped>>
  /\ uncaught' = FALSE

\* the user activates the close button: onclick="this.parentElement.remove()"
CloseClick(tooltip) ==
  /\ tooltip \in attached
  /\ attached' = attached \ {tooltip}
  /\ lastOp' = "close"
  /\ UNCHANGED <<variant, extractCall, installerVars, lifecycleVars, jobData, currentTooltip, tooltips, timers,
                 queueVars, calls, location, harvestEscaped>>
  /\ uncaught' = FALSE

\* ------------------------------------------------------ interaction watcher
\* n copies of x
Copies(x, n) == [i \in 1..n |-> x]

\* a click event on target: every registered listener runs
Click(target) ==
  /\ clickQueue' = IF target.sel \in cardSelectors(variant)
                   THEN clickQueue \o Copies(target, clickListeners)
                   ELSE clickQueue
  /\ Len(clickQueue') <= MaxQueue
  /\ lastOp' = "task"
  /\ UNCHANGED <<variant, extractCall, installerVars, lifecycleVars, jobData, overlayVars, navQueue, calls,
                 location, harvestEscaped>>
  /\ uncaught' = FALSE

\* the host page changes location.href (history API)
LocationChange(url) ==
  /\ url # location
  /\ location' = url
  /\ lastOp' = "task"
  /\ UNCHANGED <<variant, extractCall, installerVars, lifecycleVars, jobData, overlayVars, queueVars, calls,
                 harvestEscaped>>
  /\ uncaught' = FALSE

\* a DOM mutation is reported to location-watching observer k, which has seen
\* a location other than its lastUrl
ObserverFires(k) ==
  /\ k \in 1..Len(navObservers)
  /\ location # navObservers[k]
  /\ Len(navQueue) < MaxNavQueue
  /\ navObservers' = [navObservers EXCEPT ![k] = location]
  /\ navQueue' = Append(navQueue, location)
  /\ lastOp' = "task"
  /\ UNCHANGED <<variant, extractCall, installerVars, isInitialized, observer, wrappers, clickListeners, jobData,
                 overlayVars, clickQueue, calls, location, harvestEscaped>>
  /\ uncaught' = FALSE

\* ---------------------------------------------------------------- extractor
\* the call extractJobId(url) that is under way returns; it reads and writes
\* no field
ExtractCall ==
  /\ ~ extractCall.done
  /\ extractCall' = [extractCall EXCEPT !.ret = extractJobId(variant, extractCall.url),
                                        !.done = TRUE]
  /\ lastOp' = "task"
  /\ UNCHANGED <<variant, installerVars, lifecycleVars, jobData, overlayVars,
                 queueVars, calls, location, harvestEscaped>>
  /\ uncaught' = FALSE

\* ------------------------------------------------------------ GUI installer
Browsers == {"chrome", "edge", "both"}

\* a thread that has just been started on install_extension
NewThread == [failed |-> FALSE, pc |-> "mkdir"]

\* the user picks a radio button
SelectBrowser(b) ==
  /\ browser_var # b
  /\ browser_var' = b
  /\ UNCHANGED <<scriptVars, install_btn, open_extensions_btn, progress_var, opened,
                 threads, installClicks>>

\* open_extensions_page: the pages opened once it has run for browser b
open_extensions_page(pages, b) ==
  pages \cup (IF b \in {"chrome", "both"} THEN {"chrome"} ELSE {})
        \cup (IF b \in {"edge", "both"} THEN {"edge"} ELSE {})

\* the user clicks "Open Extensions Page"; a disabled button runs no command
ClickOpenExtensions ==
  /\ open_extensions_btn = "normal"
  /\ opened' = open_extensions_page(opened, browser_var)
  /\ opened' # opened
  /\ UNCHANGED <<scriptVars, install_btn, open_extensions_btn, browser_var,
                 progress_var, threads, installClicks>>

\* start_installation: the button is disabled, then the thread is started
start_installation ==
  /\ Len(threads) < MaxThreads
  /\ install_btn' = "disabled"
  /\ threads' = Append(threads, NewThread)

\* the user clicks "Install Extension"; a disabled button runs no command
ClickInstall ==
  /\ installClicks < MaxClicks
  /\ installClicks' = installClicks + 1
  /\ IF install_btn = "normal" THEN start_installation
                                ELSE UNCHANGED <<install_btn, threads>>
  /\ UNCHANGED <<scriptVars, open_extensions_btn, browser_var, progress_var, opened>>

\* thread t leaves the try block with an exception
raise(t) == threads' = [threads EXCEPT ![t].pc = "except"]

\* install_path.mkdir(...) and update_progress(20, ...) in thread t
InstallMkdir(t, raises) ==
  /\ t \in 1..Len(threads) /\ threads[t].pc = "mkdir"
  /\ IF raises THEN raise(t) /\ UNCHANGED progress_var
     ELSE /\ progress_var' = 20
          /\ threads' = [threads EXCEPT ![t].pc = "files"]
  /\ UNCHANGED <<scriptVars, install_btn, open_extensions_btn, browser_var, opened,
                 installClicks>>

\* create_extension_files(install_path) and update_progress(60, ...)
InstallCreateFiles(t, raises) ==
  /\ t \in 1..Len(threads) /\ threads[t].pc = "files"
  /\ IF raises THEN raise(t) /\ UNCHANGED progress_var
     ELSE /\ progress_var' = 60
          /\ threads' = [threads EXCEPT ![t].pc = "instructions"]
  /\ UNCHANGED <<scriptVars, install_btn, open_extensions_btn, browser_var, opened,
                 installClicks>>

\* create_instructions(install_path) and update_progress(80, ...)
InstallCreateInstructions(t, raises) ==
  /\ t \in 1..Len(threads) /\ threads[t].pc = "instructions"
  /\ IF raises THEN raise(t) /\ UNCHANGED progress_var
     ELSE /\ progress_var' = 80
          /\ threads' = [threads EXCEPT ![t].pc = "finish"]
  /\ UNCHANGED <<scriptVars, install_btn, open_extensions_btn, browser_var, opened,
                 installClicks>>

\* update_progress(100, ...), then the two config calls under "# Enable buttons"
InstallFinish(t) ==
  /\ t \in 1..Len(threads) /\ threads[t].pc = "finish"
  /\ progress_var' = 100
  /\ install_btn' = "disabled"
  /\ open_extensions_btn' = "normal"
  /\ threads' = [threads EXCEPT ![t].pc = "ask"]
  /\ UNCHANGED <<scriptVars, browser_var, opened, installClicks>>

\* messagebox.askyesno returns result; open_extensions_page() if it is yes;
\* os.startfile(install_path) on win32 can raise
InstallAsk(t, result, raises) ==
  /\ t \in 1..Len(threads) /\ threads[t].pc = "ask"
  /\ opened' = IF result THEN open_extensions_page(opened, browser_var) ELSE opened
  /\ IF raises THEN raise(t)
               ELSE threads' = [threads EXCEPT ![t].pc = "done"]
  /\ UNCHANGED <<scriptVars, install_btn, open_extensions_btn, browser_var,
                 progress_var, installClicks>>

\* an except block that lets the user try again
InstallExceptReenables(t) ==
  /\ t \in 1..Len(threads) /\ threads[t].pc = "except"
  /\ progress_var' = 0
  /\ install_btn' = "normal"
  /\ threads' = [threads EXCEPT ![t] = [failed |-> TRUE, pc |-> "done"]]
  /\ UNCHANGED <<scriptVars, open_extensions_btn, browser_var, opened, installClicks>>

\* except Exception as e: update_progress(0, ...) and messagebox.showerror
InstallExcept(t) ==
  /\ t \in 1..Len(threads) /\ threads[t].pc = "except"
  /\ progress_var' = 0
  /\ threads' = [threads EXCEPT ![t] = [failed |-> TRUE, pc |-> "done"]]
  /\ UNCHANGED <<scriptVars, install_btn, open_extensions_btn, browser_var, opened,
                 installClicks>>

\* ----------------------------------------------------------- specifications
\* The whole script; the page fetches the job postings endpoint only
OkAB  == [ok |-> TRUE, obj |-> "original",
          body |-> [data |-> PayloadAB, json |-> TRUE], kind |-> "resolve"]

Next ==
  \/ InitCall
  \/ Destroy
  \/ Len(calls) < MaxCalls /\ FetchCall(TargetApi)
  \/ \E c \in 1..MaxCalls, out \in {OkAB} : FetchSettles(c, out)
  \/ \E c \in 1..MaxCalls : DecodeSettles(c)
  \/ \E anchor \in BOOLEAN : ClickLookup(anchor)
  \/ \E anchor \in BOOLEAN : NavLookup(anchor)
  \/ TimerFires
  \/ \E tooltip \in 1..MaxTips : CloseClick(tooltip)
  \/ \E target \in ClickTargets : Click(target)
  \/ \E url \in Locations : LocationChange(url)
  \/ \E k \in 1..MaxWrappers : ObserverFires(k)

Spec == Init /\ [][Next]_vars

\* The lifecycle and the interceptor, every target and every outcome
NextNet ==
  \/ InitCall
  \/ Destroy
  \/ Len(calls) < MaxNetCalls /\ \E args \in Targets : FetchCall(args)
  \/ \E c \in 1..MaxNetCalls, out \in Outcomes : FetchSettles(c, out)
  \/ \E c \in 1..MaxNetCalls : DecodeSettles(c)

SpecNet == Init /\ [][NextNet]_vars

\* The harvest: one installed wrapper, the endpoint answers with any payload,
\* the user clicks the card of posting 1
OkWith(d) == [ok |-> TRUE, obj |-> "original",
              body |-> [data |-> d, json |-> TRUE], kind |-> "resolve"]

\* the endpoint answers 200 with any of the payloads
HarvestOutcomes == {OkWith(d) : d \in HarvestPayloads}

NextHarvest ==
  \/ InitCall
  \/ Len(calls) < MaxHarvests /\ FetchCall(TargetApi)
  \/ \E c \in 1..MaxHarvests, out \in HarvestOutcomes : FetchSettles(c, out)
  \/ \E c \in 1..MaxHarvests : DecodeSettles(c)
  \/ Click(CardAttr)
  \/ ClickLookup(TRUE)

SpecHarvest == Init /\ [][NextHarvest]_vars

\* The click listener: every kind of card, on a search page and on a job page
NextClick ==
  \/ InitCall
  \/ Len(calls) < MaxCalls /\ FetchCall(TargetApi)
  \/ \E c \in 1..MaxCalls : FetchSettles(c, OkAB)
  \/ \E c \in 1..MaxCalls : DecodeSettles(c)
  \/ \E target \in ClickCards : Click(target)
  \/ \E url \in Locations : LocationChange(url)
  \/ ClickLookup(TRUE)

SpecClick == Init /\ [][NextClick]_vars

\* The location watcher: the page moves between a search page, a job page
\* and a search page with a selected job; nobody clicks
NextNav ==
  \/ InitCall
  \/ Destroy
  \/ Len(calls) < MaxCalls /\ FetchCall(TargetApi)
  \/ \E c \in 1..MaxCalls : FetchSettles(c, OkAB)
  \/ \E c \in 1..MaxCalls : DecodeSettles(c)
  \/ \E url \in NavLocations : LocationChange(url)
  \/ \E k \in 1..MaxWrappers : ObserverFires(k)
  \/ NavLookup(TRUE)

SpecNav == Init /\ [][NextNav]_vars

\* The extractor alone, on every argument
InitExtract ==
  /\ Constructed
  /\ GuiCreated
  /\ extractCall \in {[url |-> url, ret |-> Undef, done |-> FALSE] : url \in ExtractInputs}

NextExtract == ExtractCall

SpecExtract == InitExtract /\ [][NextExtract]_vars

\* The installer window: the user clicks its buttons while the installation
\* thread runs, and every step of the installation can fail
NextInstaller ==
  \/ \E b \in Browsers : SelectBrowser(b)
  \/ ClickOpenExtensions
  \/ ClickInstall
  \/ \E t \in 1..MaxThreads, raises \in BOOLEAN : InstallMkdir(t, raises)
  \/ \E t \in 1..MaxThreads, raises \in BOOLEAN : InstallCreateFiles(t, raises)
  \/ \E t \in 1..MaxThreads, raises \in BOOLEAN : InstallCreateInstructions(t, raises)
  \/ \E t \in 1..MaxThreads : InstallFinish(t)
  \/ \E t \in 1..MaxThreads, result, raises \in BOOLEAN : InstallAsk(t, result, raises)
  \/ \E t \in 1..MaxThreads : InstallExcept(t)

SpecInstaller == Init /\ [][NextInstaller]_vars

\* ------------------------------------------------------------------ claims
\* C1: every call through window.fetch, whatever its target and however the
\* harvest goes, invokes the page's own fetch exactly once with the caller's
\* arguments, and the caller's promise settles exactly as the page's own
\* fetch did: the same response object or the same rejection.
C1_WrapperTransparent ==
  \A c \in 1..Len(calls) :
    /\ calls[c].origArgs = <<calls[c].args>>
    /\ calls[c].outcome # Pending => calls[c].delivered = calls[c].outcome

\* a matching call went through two wrappers, resolved, and both harvests ran
C1_Witness ==
  \E c \in 1..Len(calls) :
    /\ calls[c].thens = 2
    /\ calls[c].outcome.kind = "resolve"
    /\ calls[c].harvested = 2
    /\ calls[c].delivered.obj = "original"

\* C2: a failure inside the harvest branch (the body does not decode, the
\* payload has an unexpected shape, an entry raises) never reaches the fetch
\* caller: the caller's promise resolved to the original response, and no
\* exception or rejection leaves the harvest step unhandled.
C2_HarvestFailsOpen ==
  /\ ~ harvestEscaped
  /\ \A c \in 1..Len(calls) :
       calls[c].failed > 0 =>
         /\ calls[c].outcome.kind = "resolve"
         /\ calls[c].delivered = calls[c].outcome

\* one harvest failed to decode and another raised while normalizing an entry
C2_Witness ==
  \E c, d \in 1..Len(calls) :
    /\ calls[c].failed > 0 /\ ~ calls[c].outcome.body.json
    /\ calls[d].failed > 0 /\ calls[d].outcome.body.data = PayloadBad

\* C3: in the rich variant, between destroy() and the next init() nothing is
\* written to the cache (no fetch issued after destroy(), no decode in flight
\* at destroy()), so the cache stays empty while the flag is down.
C3_CacheEmptyAfterDestroy ==
  (variant = "rich" /\ ~ isInitialized) => DOMAIN jobData = {}

\* C4: in the rich variant at most one wrapper is layered over the page's own
\* fetch, whatever init() and destroy() calls were made, so one matching
\* response is harvested at most once.
C4_SingleWrapper ==
  variant = "rich" =>
    /\ wrappers <= 1
    /\ \A c \in 1..Len(calls) : calls[c].harvested <= 1

\* C5: in the rich variant, between destroy() and the next init() the click
\* listener and the location watcher are gone: no step schedules a delayed
\* lookup while the flag is down.
C5_NoLookupScheduledAfterDestroy ==
  [][(variant = "rich" /\ ~ isInitialized /\ ~ isInitialized') =>
       /\ Len(clickQueue') <= Len(clickQueue)
       /\ Len(navQueue') <= Len(navQueue)]_vars

\* C6: in the rich variant, in the state right after destroy() returns the
\* cache is empty, no overlay element is attached, the active-overlay
\* reference is null and the initialized flag is false.
C6_DestroyPostState ==
  lastOp = "destroy" =>
    /\ DOMAIN jobData = {}
    /\ attached = {}
    /\ currentTooltip = NoTip
    /\ ~ isInitialized

\* destroy() has just returned in a run that had displayed an overlay whose
\* timer is still pending, and that had harvested
C6_Witness ==
  /\ lastOp = "destroy"
  /\ timers # {}
  /\ \E c \in 1..Len(calls) : calls[c].harvested > 0

\* C7: a call of init() while the initialized flag is set changes nothing:
\* no further wrapper, click listener or observer, cache and overlay as before.
C7_InitIdempotent ==
  [][(isInitialized /\ lastOp' \in {"init", "init (returned at once)"}) =>
       UNCHANGED <<isInitialized, observer, wrappers, clickListeners, navObservers,
                   jobData, currentTooltip, attached, tooltips, timers,
                   clickQueue, navQueue>>]_vars

\* init() was called again with the flag set, an overlay being displayed
C7_Witness ==
  /\ lastOp = "init (returned at once)"
  /\ attached # {}
  /\ DOMAIN jobData # {}

\* C8: in every reachable state at most one overlay element is attached to
\* the document.
C8_AtMostOneOverlay ==
  Cardinality(attached) <= 1

\* a second overlay is displayed while the timer of the first is pending
C8_Witness ==
  /\ Len(tooltips) = 2
  /\ attached = {2}
  /\ 1 \in timers

\* C9: when a show replaces an active overlay, the auto-dismiss timer of the
\* replaced panel is cancelled: it is not pending once the show has returned.
C9_ReplacedTimerCancelled ==
  [][(Len(tooltips') = Len(tooltips) + 1 /\ currentTooltip \in attached) =>
       currentTooltip \notin timers']_vars

\* C10: in the compact variant an auto-dismiss timer removes no panel other
\* than the one it was armed for.
C10_TimerRemovesOwnPanelOnly ==
  [][(variant = "compact" /\ timers' # timers /\ timers' \subseteq timers) =>
       (attached \ attached') \subseteq (timers \ timers')]_vars

\* C11: in the rich variant an auto-dismiss timer removes no panel other than
\* the one it was armed for: when the timer armed for panel P expires, an
\* element leaves the document only if P is the active overlay, and the
\* element is P.
C11_RichTimerRemovesOwnPanelOnly ==
  [][(variant = "rich" /\ lastOp' = "timer") =>
       /\ (attached \ attached') \subseteq (timers \ timers')
       /\ attached' # attached => currentTooltip \in (timers \ timers')]_vars

\* the timer of panel 1 has just expired while panel 2, which replaced it,
\* is displayed with its own timer pending
C11_Witness ==
  /\ variant = "rich"
  /\ lastOp = "timer"
  /\ Len(tooltips) = 2
  /\ currentTooltip = 2
  /\ attached = {2}
  /\ timers = {2}

\* C12: after the user activates the close control of a panel the presenter
\* is idle: the panel is out of the document, the active-overlay reference
\* does not refer to it and its auto-dismiss timer is not pending.
C12_CloseLeavesIdle ==
  lastOp = "close" =>
    /\ currentTooltip \notin attached
    /\ currentTooltip = NoTip
    /\ currentTooltip \notin timers

\* C13: in the rich variant every show that finds its id in the cache has
\* armed the auto-dismiss timer of the panel it displays by the time it
\* finishes, whether or not the document has a layout anchor element.
C13_ShowArmsTimer ==
  (variant = "rich" /\ lastOp = "show") => currentTooltip \in timers

\* C14: in the rich variant a show that finds its id in the cache raises no
\* exception, whether or not the document has a layout anchor element, and
\* the panel is displayed.
C14_ShowWithoutAnchorDoesNotThrow ==
  (variant = "rich" /\ lastOp = "show") =>
    /\ ~ uncaught
    /\ currentTooltip \in attached

\* C15: the last show to execute wins: an attached overlay is always the
\* element the most recent successful show created, and when a show given a
\* cached id finishes, the element it created is the one attached and its
\* four rows are the fields of the cached record of that id.
C15_LastShowWins ==
  [][/\ attached' \subseteq {Len(tooltips')}
     /\ lastOp' = "show" =>
          LET jobId == IF Len(clickQueue') < Len(clickQueue)
                       THEN resolveJobId(variant, Head(clickQueue), location)
                       ELSE extractJobId(variant, Head(navQueue))
          IN  /\ Len(tooltips') = Len(tooltips) + 1
              /\ attached' = {Len(tooltips')}
              /\ tooltips'[Len(tooltips')].rows =
                   <<jobData[jobId].listedAt, jobData[jobId].expireAt,
                     jobData[jobId].views, jobData[jobId].applies>>]_vars

\* show(A) then show(B) for two cached ids, B's show has just finished while
\* the timer of A's panel is still pending
C15_Witness ==
  /\ lastOp = "show"
  /\ Len(tooltips) = 2
  /\ tooltips[1].id # tooltips[2].id
  /\ 1 \in timers
  /\ attached = {2}

\* C16: a show for an id that is not in the cache changes nothing: no element
\* is created, the displayed overlay, the active-overlay reference and the
\* pending timers are as before, the cache is unchanged, nothing is raised.
C16_ShowUncachedIsNoOp ==
  [][lastOp' = "show (no record)" =>
       /\ UNCHANGED <<currentTooltip, attached, tooltips, timers, jobData>>
       /\ ~ uncaught']_vars

\* a show for an id with no record has just run while an overlay is displayed
\* with its timer pending
C16_Witness ==
  /\ lastOp = "show (no record)"
  /\ currentTooltip \in attached
  /\ currentTooltip \in timers
  /\ DOMAIN jobData # {}

\* C17: every call through the wrapper whose target contains the endpoint
\* signature, given as a URL string or as a Request object, is harvested:
\* each installed wrapper chains its response callback on the call, so a
\* response that decodes is handed to processJobData.
C17_MatchingTargetHarvested ==
  [][(Len(calls') = Len(calls) + 1 /\ wrappers >= 1) =>
       LET call == calls'[Len(calls')]
       IN  (call.args.t \in {"str", "req"} /\ Includes(call.args.v, Signature))
             => call.thens = wrappers]_vars

\* The raw entries of a payload with a recognized list shape: a top-level
\* list field, else a nested data list field, else the payload being a list;
\* <<>> for any other payload.
listEntries(data) ==
  IF Get(data, "elements").t = "arr" THEN Get(data, "elements").v
  ELSE IF Get(Get(data, "data"), "elements").t = "arr"
       THEN Get(Get(data, "data"), "elements").v
  ELSE IF data.t = "arr" THEN data.v
  ELSE <<>>

\* The id derivable from a raw entry: its explicit id field if present,
\* otherwise the Identifier Extractor's result on its urn field; null if none
derivableId(vr, entry) ==
  IF Truthy(Get(entry, "jobPostingId")) THEN Get(entry, "jobPostingId")
  ELSE IF Get(entry, "entityUrn").t = "str"
       THEN extractJobId(vr, Get(entry, "entityUrn").v)
  ELSE NullV

\* get(k) on cache m returns the record normalized from entry alone
holdsEntry(m, k, entry) ==
  /\ MapHas(m, k)
  /\ m[k].id = k
  /\ m[k].listedAt = convertTimestamp(Get(entry, "listedAt"))
  /\ m[k].expireAt = convertTimestamp(Get(entry, "expireAt"))
  /\ m[k].views = (IF Truthy(Get(entry, "views")) THEN Get(entry, "views") ELSE NA)
  /\ m[k].applies = (IF Truthy(Get(entry, "applies")) THEN Get(entry, "applies") ELSE NA)

\* every entry of entries with a derivable id is in cache m
allEntriesHeld(vr, entries, m) ==
  \A i \in 1..Len(entries) :
    Truthy(derivableId(vr, entries[i]))
      => holdsEntry(m, derivableId(vr, entries[i]), entries[i])

\* C18: when processJobData has processed a payload with a recognized list
\* shape, every raw entry with a derivable id is in the cache under that id,
\* normalized from its own fields; an entry with no derivable id is skipped
\* and does not keep the other entries from being stored.
C18_EveryDerivableEntryCached ==
  [][\A c \in 1..Len(calls) :
       calls'[c].harvested = calls[c].harvested + 1
         => allEntriesHeld(variant, listEntries(calls[c].outcome.body.data), jobData')]_vars

\* the record of k in cache m is built from entry alone: its fields are the
\* normalization of the entry's fields, a field the entry lacks is 'N/A'
builtFrom(m, k, entry) ==
  /\ holdsEntry(m, k, entry)
  /\ \A f \in {"listedAt", "expireAt", "views", "applies"} :
       Get(entry, f) = Undef => m[k][f] = NA

\* some raw entry of data carries id k, and m holds the record built from it
replacedFrom(vr, data, m, k) ==
  \/ \E i \in 1..Len(listEntries(data)) :
       /\ derivableId(vr, listEntries(data)[i]) = k
       /\ builtFrom(m, k, listEntries(data)[i])
  \/ derivableId(vr, data) = k /\ builtFrom(m, k, data)

\* C19: a harvest that carries an id already in the cache replaces the
\* record: the record it leaves is the one built from its own entry alone,
\* a field missing from that entry is 'N/A' and never inherited, the cache
\* still holds one record per id, and a lookup does not change the cache.
C19_PutReplaces ==
  [][/\ \A c \in 1..Len(calls) :
          calls'[c].harvested = calls[c].harvested + 1 =>
            \A k \in DOMAIN jobData :
              /\ k \in DOMAIN jobData'
              /\ jobData'[k] # jobData[k]
                   => replacedFrom(variant, calls[c].outcome.body.data, jobData', k)
     /\ lastOp' \in {"show", "show (no record)"} => jobData' = jobData]_vars

\* posting 1 was harvested with listedAt and views, then again with applies
\* only: the record has the second entry's applies and no listedAt or views;
\* it has just been looked up
C19_Witness ==
  /\ lastOp = "show"
  /\ \E c, d \in 1..Len(calls) :
       /\ calls[c].harvested > 0 /\ calls[c].outcome.body.data = PayloadAB
       /\ calls[d].harvested > 0 /\ calls[d].outcome.body.data = PayloadA2
  /\ MapHas(jobData, Str(<<"1">>))
  /\ jobData[Str(<<"1">>)].applies = Num(<<"2">>)
  /\ jobData[Str(<<"1">>)].listedAt = NA
  /\ jobData[Str(<<"1">>)].views = NA

\* a payload of no recognized shape: null, or no list field, not a list and
\* no identifying field (a non-list value in the list field included)
unrecognized(data) ==
  \/ data.t = "null"
  \/ /\ Get(data, "elements").t # "arr"
     /\ Get(Get(data, "data"), "elements").t # "arr"
     /\ data.t # "arr"
     /\ ~ Truthy(Get(data, "jobPostingId"))
     /\ ~ Truthy(Get(data, "entityUrn"))

\* C20: processing a decoded payload of no recognized shape leaves the cache
\* exactly as it was, and no exception or rejection leaves the harvest step.
C20_UnrecognizedShapeIsNoOp ==
  [][\A c \in 1..Len(calls) :
       (calls'[c].decodes = calls[c].decodes - 1
        /\ unrecognized(calls[c].outcome.body.data))
         => (jobData' = jobData /\ ~ harvestEscaped')]_vars

\* a null payload has been through the harvest and raised inside
\* processJobData; the cache holds the records of the other harvest
C20_Witness ==
  /\ DOMAIN jobData # {}
  /\ \E c \in 1..Len(calls) :
       /\ calls[c].outcome.kind = "resolve"
       /\ calls[c].outcome.body.data = NullV
       /\ calls[c].decodes = 0
       /\ calls[c].harvested > 0
       /\ calls[c].failed > 0

\* C21: when the normalization of a response's payload raises at an entry,
\* the harvest of that response is skipped as a whole: the cache after the
\* failure is the cache before the response was processed, whatever entries
\* came before the failing one.
C21_FailedHarvestLeavesCache ==
  [][\A c \in 1..Len(calls) :
       calls'[c].failed = calls[c].failed + 1 => jobData' = jobData]_vars

\* C22: when the delayed lookup of a click runs and the id its element
\* resolves to is in the cache (the harvest completed before, no destroy()
\* since), then after the lookup an overlay is attached whose rows are that
\* record's listed, expiry, views and applies fields, in this order.
C22_HarvestThenClickShowsRecord ==
  [][(Len(clickQueue') < Len(clickQueue)
      /\ MapHas(jobData, resolveJobId(variant, Head(clickQueue), location))) =>
       /\ attached' = {Len(tooltips')}
       /\ currentTooltip' = Len(tooltips')
       /\ tooltips'[Len(tooltips')].rows[1] =
            jobData[resolveJobId(variant, Head(clickQueue), location)].listedAt
       /\ tooltips'[Len(tooltips')].rows[2] =
            jobData[resolveJobId(variant, Head(clickQueue), location)].expireAt
       /\ tooltips'[Len(tooltips')].rows[3] =
            jobData[resolveJobId(variant, Head(clickQueue), location)].views
       /\ tooltips'[Len(tooltips')].rows[4] =
            jobData[resolveJobId(variant, Head(clickQueue), location)].applies]_vars

\* compact variant (clicks are its only trigger): posting 2, harvested from
\* its urn, is displayed after a click on its anchor
C22_Witness ==
  /\ variant = "compact"
  /\ lastOp = "show"
  /\ \E c \in 1..Len(calls) : calls[c].harvested > 0
  /\ currentTooltip \in attached
  /\ tooltips[currentTooltip].id = Str(<<"2">>)
  /\ tooltips[currentTooltip].rows =
       <<NA, Str(<<"date:", "7", " ", "time:", "7">>), NA, Num(<<"1">>)>>

\* C23: in the rich variant, when the click listener's delayed lookup runs
\* for a click resolving to X and X is not in the cache, the interaction is
\* over for X: no further lookup for X is left pending behind it, also when
\* the click changed the page location, so no overlay for X can follow
\* without a new interaction.
C23_MissedLookupNotRetried ==
  [][(variant = "rich"
      /\ Len(clickQueue') < Len(clickQueue)
      /\ Truthy(resolveJobId(variant, Head(clickQueue), location))
      /\ ~ MapHas(jobData, resolveJobId(variant, Head(clickQueue), location))) =>
       \A i \in 1..Len(navQueue') :
         extractJobId(variant, navQueue'[i])
           # resolveJobId(variant, Head(clickQueue), location)]_vars

\* the rules of ps, by index, that match somewhere in url
matchingRules(ps, url) == {k \in 1..Len(ps) : RegexCapture(url, ps[k]) # <<>>}

\* the capture of the first rule of ps, in list order, among hits; null if none
firstRuleCapture(ps, url, hits) ==
  IF hits = {} THEN NullV ELSE Str(RegexCapture(url, ps[Min(hits)]))

\* C24: extractJobId(input) returns the capture of the first rule, in list
\* order, that matches anywhere in the input, whichever match comes first in
\* the string, returns null when no rule matches, and changes no state.
C24_FirstRuleWins ==
  [][extractCall' # extractCall =>
       /\ extractCall'.ret =
            firstRuleCapture(patterns(variant), extractCall'.url,
                             matchingRules(patterns(variant), extractCall'.url))
       /\ UNCHANGED <<isInitialized, observer, wrappers, clickListeners,
                      navObservers, jobData, currentTooltip, attached, tooltips,
                      timers, clickQueue, navQueue, calls, location>>]_vars

\* a URL with the query parameter for 2 in front of the path segment for 1
\* has yielded 1
C24_Witness ==
  /\ extractCall.done
  /\ extractCall.url = UrlBoth
  /\ extractCall.ret = Str(<<"1">>)

\* the id a source holding string x yields through the extractor; null when
\* the source is not there
viaExtractor(vr, x) == IF x.t = "str" THEN extractJobId(vr, x.v) ELSE NullV

\* the first of the sources, in order, that yields an id; null when none does
RECURSIVE firstYield(_, _)
firstYield(sources, i) ==
  IF i > Len(sources) THEN NullV
  ELSE IF Truthy(sources[i]) THEN sources[i]
  ELSE firstYield(sources, i + 1)

\* the sources of the rich click handler in the order of section 4.4: the
\* card's id attributes, its own href, the page location, a descendant anchor
sourcesOf(vr, jobCard, loc) ==
  <<jobCard.dataJobId, jobCard.occludable, viaExtractor(vr, jobCard.href),
    extractJobId(vr, loc), viaExtractor(vr, jobCard.linkHref)>>

\* what a lookup step must have done when id is the first yield
lookupFollows(id) ==
  /\ Truthy(id) <=> lastOp' \in {"show", "show (no record)"}
  /\ (Truthy(id) /\ MapHas(jobData, id)) =>
       /\ Len(tooltips') = Len(tooltips) + 1
       /\ tooltips'[Len(tooltips')].id = id
  /\ ~ (Truthy(id) /\ MapHas(jobData, id)) => tooltips' = tooltips

\* C25: in the rich variant the delayed click handler takes the id from the
\* first source that yields one (id attribute, the card's href, the page
\* location, a descendant job-view anchor) and requests show exactly when
\* one does; only a click inside a job-card selector schedules a lookup.
C25_ClickSourcesInOrder ==
  [][variant = "rich" =>
       /\ Len(clickQueue') < Len(clickQueue) =>
            lookupFollows(firstYield(sourcesOf(variant, Head(clickQueue), location), 1))
       /\ Len(clickQueue') > Len(clickQueue) =>
            clickQueue'[Len(clickQueue')].sel \in
              {"[data-job-id]", ".jobs-search-results__list-item",
               ".job-card-container", "a[href*=/jobs/view/]"}]_vars

\* on the page of job 1, a click on a card whose own source names job 2 has
\* displayed the record of 2
C25_Witness ==
  /\ variant = "rich"
  /\ lastOp = "show"
  /\ location = LocView1
  /\ tooltips[Len(tooltips)].id = Str(<<"2">>)

shapeEntries(data) ==
  IF listEntries(data) # <<>> \/ data.t = "arr"
       \/ Get(data, "elements").t = "arr"
       \/ Get(Get(data, "data"), "elements").t = "arr"
  THEN listEntries(data)
  ELSE IF Truthy(Get(data, "jobPostingId")) \/ Truthy(Get(data, "entityUrn"))
       THEN <<data>>
  ELSE <<>>

\* the ids derivable from the entries
entryIds(vr, entries) ==
  {derivableId(vr, entries[i]) : i \in 1..Len(entries)}

\* cache m2 is cache m after the storing of entries: each entry with a
\* derivable id is held, and no other id was written
storedFrom(vr, entries, m, m2) ==
  /\ allEntriesHeld(vr, entries, m2)
  /\ \A k \in DOMAIN m2 :
       (k \notin DOMAIN m \/ m2[k] # m[k]) => k \in entryIds(vr, entries)

\* all entries are objects
allObjects(entries) == \A i \in 1..Len(entries) : entries[i].t = "obj"

\* C27: in the rich variant the harvest of a payload whose entries are all
\* objects stores the entries of the first applicable shape (top-level list,
\* nested list, the payload as a list, the payload as one entry with an id
\* field or only a urn field) and writes under no other id.
C27_ShapeOrder ==
  [][\A c \in 1..Len(calls) :
       (variant = "rich" /\ calls'[c].harvested = calls[c].harvested + 1
        /\ allObjects(shapeEntries(calls[c].outcome.body.data)))
         => storedFrom(variant, shapeEntries(calls[c].outcome.body.data),
                       jobData, jobData')]_vars

\* C28: every cache entry is keyed by its record's own id, and the key is a
\* string, so that the string id resolved from a URL or a DOM attribute finds
\* the record.
C28_KeysAreStringIds ==
  \A k \in DOMAIN jobData : jobData[k].id = k /\ k.t = "str"

\* C29: the cache changes only in a step in which the decoded payload of a
\* response is harvested or, in the rich variant, in destroy(); clicks,
\* location changes, delayed lookups, show, the close button and the
\* auto-dismiss timer leave it as it is.
C29_CacheWrittenByHarvestOnly ==
  [][jobData' # jobData =>
       \/ \E c \in 1..Len(calls) : calls'[c].decodes = calls[c].decodes - 1
       \/ variant = "rich" /\ lastOp' = "destroy"]_vars

\* both records are cached, the page has moved to the job page, an overlay
\* was displayed and its timer has just removed it
C29_Witness ==
  /\ lastOp = "timer"
  /\ location = LocView1
  /\ currentTooltip = 0
  /\ DOMAIN jobData = {Str(<<"1">>), Str(<<"2">>)}

\* C30: the response of a call is delivered to the caller in the step in
\* which the page's own fetch settles, a step that harvests nothing; a call
\* whose clone is still being decoded has its response delivered already;
\* and a call that has not settled can settle whatever harvests are pending.
C30_DeliveryNeverWaits ==
  [][\A c \in 1..Len(calls) :
       /\ (calls[c].outcome = Pending /\ calls'[c].outcome # Pending)
            => /\ calls'[c].delivered = calls'[c].outcome
               /\ calls'[c].harvested = 0
               /\ jobData' = jobData
       /\ calls[c].decodes > 0 => calls[c].delivered = calls[c].outcome
       /\ calls[c].outcome = Pending => ENABLED FetchSettles(c, OkAB)]_vars

\* two matching calls have their responses delivered, and neither clone has
\* been decoded yet
C30_Witness ==
  /\ Len(calls) = 2
  /\ \A c \in 1..2 :
       /\ calls[c].outcome.kind = "resolve"
       /\ calls[c].delivered = calls[c].outcome
       /\ calls[c].decodes > 0
       /\ calls[c].harvested = 0

\* the other content-script variant
otherVariant(vr) == IF vr = "rich" THEN "compact" ELSE "rich"

\* the rich variant's fourth pattern plays no part in entry: its urn, when
\* it has one, gives the same id with and without that pattern
fourthRuleIdle(entry) ==
  Get(entry, "entityUrn").t = "str"
    => extractJobId("rich", Get(entry, "entityUrn").v)
         = extractJobId("compact", Get(entry, "entityUrn").v)

\* ... and in no entry of a payload, read as a list or as one entry
fourthRuleIdleIn(data) ==
  /\ fourthRuleIdle(data)
  /\ \A i \in 1..Len(listEntries(data)) : fourthRuleIdle(listEntries(data)[i])

\* caches m1 and m2 hold records under the same ids, with equal values of
\* the four fields both variants have
sameStore(m1, m2) ==
  /\ DOMAIN m1 = DOMAIN m2
  /\ \A k \in DOMAIN m1 :
       \A f \in {"listedAt", "expireAt", "views", "applies"} : m1[k][f] = m2[k][f]

\* C31: when the harvest step has processed a decoded payload in which the
\* rich variant's fourth pattern plays no part, the cache it leaves holds
\* the same ids with the same listedAt, expireAt, views and applies as the
\* other variant's processJobData leaves for that payload and that cache.
C31_VariantsHarvestAlike ==
  [][\A c \in 1..Len(calls) :
       (calls'[c].harvested = calls[c].harvested + 1
        /\ fourthRuleIdleIn(calls[c].outcome.body.data))
         => sameStore(jobData',
                      processJobData(otherVariant(variant),
                                     calls[c].outcome.body.data, jobData).jobData)]_vars

\* the stored count for a raw count: the raw value when it is a number
\* other than 0, 'N/A' when the raw field is absent or is 0
countStored(stored, raw) ==
  /\ (raw.t = "num" /\ raw.v # <<"0">>) => stored = raw
  /\ (raw.t = "undef" \/ raw = Num(<<"0">>)) => stored = NA

\* the record rec under id k comes from an entry of data, read as a list or
\* as one entry, and its two counts follow that entry's raw counts
countsFrom(vr, data, k, rec) ==
  \E e \in {listEntries(data)[i] : i \in 1..Len(listEntries(data))} \cup {data} :
    /\ derivableId(vr, e) = k
    /\ countStored(rec.views, Get(e, "views"))
    /\ countStored(rec.applies, Get(e, "applies"))

\* C32: every record a harvest step writes has the views and applies of its
\* raw entry when these are non-zero numbers, and 'N/A' both when the raw
\* field is absent and when it is 0.
C32_ZeroCountStoredAsMissing ==
  [][\A c \in 1..Len(calls) :
       calls'[c].harvested = calls[c].harvested + 1 =>
         \A k \in DOMAIN jobData' :
           (k \notin DOMAIN jobData \/ jobData'[k] # jobData[k])
             => countsFrom(variant, calls[c].outcome.body.data, k, jobData'[k])]_vars

\* the posting with 0 views and 2 applies has been harvested: its record
\* has 'N/A' views and 2 applies
C32_Witness ==
  /\ \E c \in 1..Len(calls) :
       calls[c].harvested > 0 /\ calls[c].outcome.body.data = PayloadZero
  /\ MapHas(jobData, Str(<<"2">>))
  /\ jobData[Str(<<"2">>)].views = NA
  /\ jobData[Str(<<"2">>)].applies = Num(<<"2">>)

=============================================================================
